---- MODULE Spec2Model ----
(***************************************************************************)
(* clink: a TCP broadcast hub (server.go) with per-connection session      *)
(* handlers, and the Bubble Tea order console (main.go) that multiplexes   *)
(* request/response calls and a background poll over one buffered reader.  *)
(*                                                                         *)
(* Spec      : the server as startTCPServer runs it (Hub.Run + handleConn) *)
(* FairSpec  : Spec with the Go scheduler's fairness for liveness claims   *)
(* HubSpec   : Hub.Run alone, driven through its three channels by         *)
(*             arbitrary producers (the Hub's contract)                    *)
(* ClientSpec: the client's Update loop and its commands on one socket     *)
(***************************************************************************)
EXTENDS Integers, Sequences, FiniteSets, Bags, TLC

\* ---------------------------------------------------------------- bounds
\* number of connections the listener accepts
NumConns == 2
\* lines a session's scanner returns before the peer closes the stream
MaxLines == 1
\* capacity of msgCh; server.go makes it 128, scaled down so that a full
\* queue is reachable
MsgChCap == 2
\* requests the producers of HubSpec issue
MaxReqs == 4
\* connections the client dials (the first one and the reconnects)
MaxDials == 2
\* menu fetches and order submissions the client starts
MaxCalls == 3
\* broadcast lines of other sessions that reach the client
MaxBcasts == 1
\* length of the free part of the texts given to sanitizeUsername
MaxText == 4
\* broadcast lines that reach the client while it only polls, and how many
\* of them can be unread at a time
MaxHistoryLines == 12
MaxUnread == 2

\* ------------------------------------------------------------------ text
\* a Go string is a sequence of one-character strings
LowerCase == <<
  "a", "b", "c", "d", "e", "f", "g", "h", "i", "j", "k", "l", "m", "n",
  "o", "p", "q", "r", "s", "t", "u", "v", "w", "x", "y", "z">>
UpperCase == <<
  "A", "B", "C", "D", "E", "F", "G", "H", "I", "J", "K", "L", "M", "N",
  "O", "P", "Q", "R", "S", "T", "U", "V", "W", "X", "Y", "Z">>
Digits == {"0", "1", "2", "3", "4", "5", "6", "7", "8", "9"}
Letters == {LowerCase[i] : i \in 1..26} \cup {UpperCase[i] : i \in 1..26}

\* unicode.ToUpper on the characters used here
ToUpper(ch) ==
  IF \E i \in 1..26 : LowerCase[i] = ch
    THEN UpperCase[CHOOSE i \in 1..26 : LowerCase[i] = ch]
    ELSE ch

\* strings.EqualFold
EqualFold(s, t) ==
  /\ Len(s) = Len(t)
  /\ \A i \in 1..Len(s) : ToUpper(s[i]) = ToUpper(t[i])

\* strings.HasPrefix
HasPrefix(s, p) == Len(s) >= Len(p) /\ SubSeq(s, 1, Len(p)) = p

\* strings.Trim(s, cutset)
RECURSIVE TrimLeft(_, _)
TrimLeft(s, cut) ==
  IF s # <<>> /\ Head(s) \in cut THEN TrimLeft(Tail(s), cut) ELSE s
RECURSIVE TrimRight(_, _)
TrimRight(s, cut) ==
  IF s # <<>> /\ s[Len(s)] \in cut
    THEN TrimRight(SubSeq(s, 1, Len(s) - 1), cut)
    ELSE s
Trim(s, cut) == TrimRight(TrimLeft(s, cut), cut)

\* strings.TrimSpace
Spaces == {" "}
TrimSpace(s) == Trim(s, Spaces)

\* sanitizeUsername: const maxLen
maxLen == 12
\* the characters sanitizeUsername keeps, and those it trims at both ends
NameChars == Letters \cup Digits \cup {"_", "-", "."}
NameTrim == {".", "_", "-"}

\* the rune loop of sanitizeUsername without the length test
RECURSIVE SanitizeLoopNoCap(_, _)
SanitizeLoopNoCap(s, out) ==
  IF s = <<>> THEN out
  ELSE LET r == Head(s)
           o == CASE r \in NameChars -> Append(out, r)
                  [] r = " " -> Append(out, "_")
                  [] OTHER -> out
       IN  SanitizeLoopNoCap(Tail(s), o)

\* the rune loop of sanitizeUsername: s is what is left of the text, out the
\* runes kept so far; the loop ends when out has maxLen runes
RECURSIVE SanitizeLoop(_, _)
SanitizeLoop(s, out) ==
  IF s = <<>> THEN out
  ELSE LET r == Head(s)
           o == CASE r \in NameChars -> Append(out, r)
                  [] r = " " -> Append(out, "_")
                  [] OTHER -> out
       IN  IF Len(o) >= maxLen THEN o ELSE SanitizeLoop(Tail(s), o)

sanitizeUsername(s) ==
  LET t == TrimSpace(s) IN
  IF t = <<>> THEN <<>> ELSE Trim(SanitizeLoop(t, <<>>), NameTrim)

Conns == 1..NumConns
\* the nil net.Conn of broadcast.exclude
NoConn == 0

\* usernames: the default user_<id>
DefaultName == <<"u", "s", "e", "r">>
Bob == <<"b", "o", "b">>
\* the usernames a session can have: the default one and what sanitizeUsername
\* makes of the /name arguments below
Names == {DefaultName, Bob}

\* the command words of handleConn
MENU == <<"M", "E", "N", "U">>
ORDER == <<"O", "R", "D", "E", "R">>
QUIT == <<"/", "q", "u", "i", "t">>
NAME == <<"/", "n", "a", "m", "e", " ">>

\* defaultMenu, prices in cents
defaultMenu ==
  [latte |-> [Name |-> "Caffe Latte", Price |-> 450],
   cap |-> [Name |-> "Cappuccino", Price |-> 400],
   esp |-> [Name |-> "Espresso", Price |-> 300]]
MenuIDs == {"latte", "cap", "esp"}

\* the JSON text after ORDER: ok says whether it is a JSON object at all,
\* name and item are its "name" and "itemId", qty its "quantity": a JSON
\* integer, a JSON string holding digits, a JSON number written with a
\* fraction (2.0), or absent
Json(ok, name, item, t, v) ==
  [ok |-> ok, name |-> name, item |-> item, qty |-> [t |-> t, v |-> v]]
NoJson == Json(FALSE, <<>>, "", "none", 0)
OrderJsons ==
  { Json(TRUE, <<"A">>, "latte", "int", 2),
    Json(TRUE, <<" ", "A">>, "esp", "int", 1),
    Json(FALSE, <<"A">>, "latte", "int", 2),
    Json(TRUE, <<" ">>, "latte", "int", 2),
    Json(TRUE, <<"A">>, "latte", "int", 0),
    Json(TRUE, <<"A">>, "latte", "none", 0),
    Json(TRUE, <<"A">>, "tea", "int", 2),
    Json(TRUE, <<"A">>, "cap", "str", 2),
    Json(TRUE, <<"A">>, "cap", "float", 2) }

\* a line of the peer as scanner.Text() returns it: text, and for has = TRUE
\* a space and the JSON text json after it
Line(text, has, json) == [text |-> text, has |-> has, json |-> json]
Plain(text) == Line(text, FALSE, NoJson)
\* the lines the peers of Spec send
Lines ==
  { Plain(<<" ">>),
    Plain(MENU),
    Plain(QUIT),
    Plain(NAME \o Bob),
    Plain(NAME \o <<".", ".">>),
    Plain(NAME \o DefaultName),
    Plain(<<"h", "i">>),
    Line(ORDER, TRUE, Json(TRUE, <<"A">>, "latte", "int", 2)),
    Line(ORDER, TRUE, Json(TRUE, <<"A">>, "tea", "int", 2)) }
\* more lines for the dispatch on its own: the command words in another
\* letter case, /name without an argument, a word that begins with ORDER,
\* and every ORDER of OrderJsons
MoreLines ==
  { Plain(<<"m", "e", "n", "u">>),
    Plain(<<"/", "Q", "U", "I", "T">>),
    Plain(<<"/", "N", "a", "m", "e", " ">> \o Bob),
    Plain(NAME \o Bob \o <<"!">>),
    Plain(NAME),
    Plain(ORDER \o <<"L", "Y">>),
    Line(<<"o", "r", "d", "e", "r">>, TRUE, Json(TRUE, <<"A">>, "latte", "int", 2)) }
    \cup {Line(ORDER, TRUE, j) : j \in OrderJsons}
NoLine == Plain(<<>>)

\* what the handler writes to its own connection
Reply(kind, text, total) == [kind |-> kind, text |-> text, total |-> total]
NoReply == Reply("none", "", 0)

VARIABLES
  \* ---- server: Hub
  conns,        \* h.conns, the registry
  msgCh,        \* h.msgCh, the buffered broadcast queue
  hubPc,        \* where Hub.Run is: "select", "fanout", "blocked"
  cur,          \* the broadcast of the current fan-out pass
  pending,      \* connections the range loop has not visited yet
  passWrites,   \* Fprintln calls per connection in the current pass
  failed,       \* connections whose write failed in the current pass
  closes,       \* c.Close() calls by the Hub, per connection
  joinsHandled, \* Join requests the Hub has received, per connection
  leavesHandled,\* Leave requests the Hub has received, per connection
  passesDone,   \* fan-out passes completed
  \* ---- server: session handlers and their connections
  pc,           \* position of handleConn(h, c)
  line,         \* the line being dispatched
  reply,        \* the line the handler is about to write to its connection
  username,     \* the handler's local username
  nread,        \* lines scanned so far
  net,          \* the peer: "ok", "broken" (I/O fails), "stalled" (never reads)
  lastSeq,      \* submission number of the last broadcast the peer received
  leaveSubs,    \* usernames of the [leave] broadcasts the handler submitted
  seq,          \* broadcasts submitted so far (submission order)
  \* ---- client (main.go)
  m,            \* the Bubble Tea model
  cmds,         \* the tea.Cmd goroutines in flight, with their results
  sock,         \* the client's connections, by dial number
  calls,        \* fetchMenuCmd and submitOrderCmd commands issued so far
  bcasts,       \* broadcast lines of other sessions sent to the client so far
  \* ---- sanitizeUsername on its own
  san           \* a call of sanitizeUsername: its argument and its result

vars == <<conns, msgCh, hubPc, cur, pending, passWrites, failed, closes,
          joinsHandled, leavesHandled, passesDone, pc, line, reply,
          username, nread, net, lastSeq, leaveSubs, seq, m, cmds, sock,
          calls, bcasts, san>>

cl == <<m, cmds, sock, calls, bcasts>>
server == <<conns, msgCh, hubPc, cur, pending, passWrites, failed, closes,
            joinsHandled, leavesHandled, passesDone, pc, line, reply,
            username, nread, net, lastSeq, leaveSubs, seq>>

NoMsg == [seq |-> 0, kind |-> "none", from |-> NoConn, user |-> DefaultName,
          arg |-> <<>>, exclude |-> NoConn]

\* broadcast{text, exclude}: text is "[kind] user (id) arg", the id being the
\* connection's; seq records the submission order
Broadcast(n, k, c, u, a, ex) ==
  [seq |-> n, kind |-> k, from |-> c, user |-> u, arg |-> a, exclude |-> ex]

\* ------------------------------------------------------------------ Hub
NewHub ==
  /\ conns = {}
  /\ msgCh = <<>>
  /\ hubPc = "select"
  /\ cur = NoMsg
  /\ pending = {}
  /\ passWrites = [c \in Conns |-> 0]
  /\ failed = {}
  /\ closes = [c \in Conns |-> 0]
  /\ joinsHandled = [c \in Conns |-> 0]
  /\ leavesHandled = [c \in Conns |-> 0]
  /\ passesDone = 0

\* case c := <-h.joinCh
HubJoin(c) ==
  /\ hubPc = "select"
  /\ conns' = conns \cup {c}
  /\ joinsHandled' = [joinsHandled EXCEPT ![c] = @ + 1]
  /\ UNCHANGED <<msgCh, hubPc, cur, pending, passWrites, failed, closes,
                 leavesHandled, passesDone, lastSeq>>

\* HubLeave that closes c but forgets to delete it from the registry
HubLeaveKeepsEntry(c) ==
  /\ hubPc = "select"
  /\ leavesHandled' = [leavesHandled EXCEPT ![c] = @ + 1]
  /\ IF c \in conns
       THEN closes' = [closes EXCEPT ![c] = @ + 1]
       ELSE UNCHANGED closes
  /\ UNCHANGED <<conns, msgCh, hubPc, cur, pending, passWrites, failed,
                 joinsHandled, passesDone, lastSeq>>

\* HubLeave without the membership test: c is closed on every Leave
HubLeaveAlwaysCloses(c) ==
  /\ hubPc = "select"
  /\ leavesHandled' = [leavesHandled EXCEPT ![c] = @ + 1]
  /\ conns' = conns \ {c}
  /\ closes' = [closes EXCEPT ![c] = @ + 1]
  /\ UNCHANGED <<msgCh, hubPc, cur, pending, passWrites, failed,
                 joinsHandled, passesDone, lastSeq>>

\* case c := <-h.leaveCh
HubLeave(c) ==
  /\ hubPc = "select"
  /\ leavesHandled' = [leavesHandled EXCEPT ![c] = @ + 1]
  /\ IF c \in conns
       THEN /\ conns' = conns \ {c}
            /\ closes' = [closes EXCEPT ![c] = @ + 1]
       ELSE UNCHANGED <<conns, closes>>
  /\ UNCHANGED <<msgCh, hubPc, cur, pending, passWrites, failed,
                 joinsHandled, passesDone, lastSeq>>

\* HubTake that receives the newest queued broadcast instead of the oldest
HubTakeNewest ==
  /\ hubPc = "select"
  /\ msgCh # <<>>
  /\ cur' = msgCh[Len(msgCh)]
  /\ msgCh' = SubSeq(msgCh, 1, Len(msgCh) - 1)
  /\ pending' = conns
  /\ hubPc' = "fanout"
  /\ UNCHANGED <<conns, passWrites, failed, closes, joinsHandled,
                 leavesHandled, passesDone, lastSeq, net>>

\* HubTake whose range loop visits every connection that ever joined
HubTakeEveryJoined ==
  /\ hubPc = "select"
  /\ msgCh # <<>>
  /\ cur' = Head(msgCh)
  /\ msgCh' = Tail(msgCh)
  /\ pending' = {c \in Conns : joinsHandled[c] >= 1}
  /\ hubPc' = "fanout"
  /\ UNCHANGED <<conns, passWrites, failed, closes, joinsHandled,
                 leavesHandled, passesDone, lastSeq, net>>

\* case msg := <-h.msgCh: the receive, and the start of the range loop
HubTake ==
  /\ hubPc = "select"
  /\ msgCh # <<>>
  /\ cur' = Head(msgCh)
  /\ msgCh' = Tail(msgCh)
  /\ pending' = conns
  /\ hubPc' = "fanout"
  /\ UNCHANGED <<conns, passWrites, failed, closes, joinsHandled,
                 leavesHandled, passesDone, lastSeq, net>>

\* Excluded without the comparison: nobody is skipped
ExcludedNobody(msg, c) == FALSE

\* whether the range loop skips c for msg
Excluded(msg, c) == msg.exclude # NoConn /\ c = msg.exclude

\* what a write to c can do: deliver the line, fail (the peer's side is gone:
\* every later read and write on c fails too), or not return (the peer has
\* stopped reading and its buffers are full)
WriteOutcomes(c) ==
  CASE net[c] = "ok" -> {"ok", "broken", "stalled"}
    [] net[c] = "broken" -> {"broken"}
    [] OTHER -> {"stalled"}

\* HubIter that gives up the pass at the first failed write
HubIterStopsOnError(c) ==
  /\ hubPc = "fanout"
  /\ c \in pending
  /\ IF Excluded(cur, c)
       THEN /\ pending' = pending \ {c}
            /\ UNCHANGED <<passWrites, failed, lastSeq, hubPc, net>>
       ELSE /\ passWrites' = [passWrites EXCEPT ![c] = @ + 1]
            /\ \E r \in WriteOutcomes(c) :
                 /\ net' = [net EXCEPT ![c] = r]
                 /\ lastSeq' = [lastSeq EXCEPT
                                  ![c] = IF r = "ok" THEN cur.seq ELSE @]
                 /\ failed' = IF r = "broken" THEN failed \cup {c} ELSE failed
                 /\ hubPc' = IF r = "stalled" THEN "blocked" ELSE hubPc
                 /\ pending' = IF r = "broken" THEN {} ELSE pending \ {c}
  /\ UNCHANGED <<conns, msgCh, cur, closes, joinsHandled, leavesHandled,
                 passesDone>>

\* HubIter over a registry that keeps one entry per Join received: c is
\* written once for each of them
HubIterPerJoin(c) ==
  /\ hubPc = "fanout"
  /\ c \in pending
  /\ pending' = pending \ {c}
  /\ IF Excluded(cur, c)
       THEN UNCHANGED <<passWrites, failed, lastSeq, hubPc, net>>
       ELSE /\ passWrites' = [passWrites EXCEPT ![c] = @ + joinsHandled[c]]
            /\ \E r \in WriteOutcomes(c) :
                 /\ net' = [net EXCEPT ![c] = r]
                 /\ lastSeq' = [lastSeq EXCEPT
                                  ![c] = IF r = "ok" THEN cur.seq ELSE @]
                 /\ failed' = IF r = "broken" THEN failed \cup {c} ELSE failed
                 /\ hubPc' = IF r = "stalled" THEN "blocked" ELSE hubPc
  /\ UNCHANGED <<conns, msgCh, cur, closes, joinsHandled, leavesHandled,
                 passesDone>>

\* HubIter that sends the Leave of a connection whose write failed itself:
\* Hub.Run is the only receiver of leaveCh, so it waits at that send for good
HubIterLeavesOnError(c) ==
  /\ hubPc = "fanout"
  /\ c \in pending
  /\ pending' = pending \ {c}
  /\ IF Excluded(cur, c)
       THEN UNCHANGED <<passWrites, failed, lastSeq, hubPc, net>>
       ELSE /\ passWrites' = [passWrites EXCEPT ![c] = @ + 1]
            /\ \E r \in WriteOutcomes(c) :
                 /\ net' = [net EXCEPT ![c] = r]
                 /\ lastSeq' = [lastSeq EXCEPT
                                  ![c] = IF r = "ok" THEN cur.seq ELSE @]
                 /\ failed' = IF r = "broken" THEN failed \cup {c} ELSE failed
                 /\ hubPc' = CASE r = "stalled" -> "blocked"
                               [] r = "broken" -> "leave"
                               [] OTHER -> hubPc
  /\ UNCHANGED <<conns, msgCh, cur, closes, joinsHandled, leavesHandled,
                 passesDone>>

\* one iteration of `for c := range h.conns` (map order: any c not yet
\* visited).  The error of Fprintln is dropped.
HubIter(c) ==
  /\ hubPc = "fanout"
  /\ c \in pending
  /\ pending' = pending \ {c}
  /\ IF Excluded(cur, c)
       THEN UNCHANGED <<passWrites, failed, lastSeq, hubPc, net>>
       ELSE /\ passWrites' = [passWrites EXCEPT ![c] = @ + 1]
            /\ \E r \in WriteOutcomes(c) :
                 /\ net' = [net EXCEPT ![c] = r]
                 /\ lastSeq' = [lastSeq EXCEPT
                                  ![c] = IF r = "ok" THEN cur.seq ELSE @]
                 /\ failed' = IF r = "broken" THEN failed \cup {c} ELSE failed
                 /\ hubPc' = IF r = "stalled" THEN "blocked" ELSE hubPc
  /\ UNCHANGED <<conns, msgCh, cur, closes, joinsHandled, leavesHandled,
                 passesDone>>

\* the range loop is exhausted: h.mu.Unlock() and back to the select
HubPassEnd ==
  /\ hubPc = "fanout"
  /\ pending = {}
  /\ hubPc' = "select"
  /\ passesDone' = passesDone + 1
  /\ cur' = NoMsg
  /\ passWrites' = [c \in Conns |-> 0]
  /\ failed' = {}
  /\ UNCHANGED <<conns, msgCh, pending, closes, joinsHandled, leavesHandled,
                 lastSeq, net>>

\* Submit that drops the broadcast when the queue is full
SubmitDropsWhenFull(k, c, u, a, ex) ==
  /\ seq' = seq + 1
  /\ msgCh' = IF Len(msgCh) < MsgChCap
                THEN Append(msgCh, Broadcast(seq + 1, k, c, u, a, ex))
                ELSE msgCh

\* h.msgCh <- broadcast{...}: blocks while the queue is full
Submit(k, c, u, a, ex) ==
  /\ Len(msgCh) < MsgChCap
  /\ seq' = seq + 1
  /\ msgCh' = Append(msgCh, Broadcast(seq + 1, k, c, u, a, ex))

\* the Hub is not touched
HubIdle ==
  UNCHANGED <<conns, msgCh, hubPc, cur, pending, passWrites, failed, closes,
              joinsHandled, leavesHandled, passesDone, lastSeq, seq>>

\* everything of the Hub but the queue is left alone
HubButQueue ==
  UNCHANGED <<conns, hubPc, cur, pending, passWrites, failed, closes,
              joinsHandled, leavesHandled, passesDone, lastSeq>>

\* ------------------------------------------------------- session handler
\* fmt.Fprintln(c, ...) by the handler itself: the line reaches the peer, or
\* the write fails (the error is dropped and the handler goes on to `next`),
\* or it does not return (the handler is stuck in it)
WriteDirect(c, next) ==
  \E r \in WriteOutcomes(c) :
    /\ net' = [net EXCEPT ![c] = r]
    /\ pc' = [pc EXCEPT ![c] = IF r = "stalled" THEN "stuck" ELSE next]

\* ln.Accept(), `go handleConn(hub, c)`, the deferred Leave is registered, and
\* h.joinCh <- c: unbuffered, so the send is the Hub's receive
SendJoin(c) ==
  /\ pc[c] = "join"
  /\ HubJoin(c)
  /\ pc' = [pc EXCEPT ![c] = "greet"]
  /\ UNCHANGED <<line, reply, username, nread, net, leaveSubs, seq, cl, san>>

\* id, default username, the welcome line and the usage hint
Greet(c) ==
  /\ pc[c] = "greet"
  /\ username' = [username EXCEPT ![c] = DefaultName]
  /\ WriteDirect(c, "announce")
  /\ UNCHANGED <<line, reply, nread, leaveSubs, cl, san>>
  /\ HubIdle

\* h.msgCh <- broadcast{"[join] ...", exclude: c}
Announce(c) ==
  /\ pc[c] = "announce"
  /\ Submit("join", c, username[c], <<>>, c)
  /\ pc' = [pc EXCEPT ![c] = "scan"]
  /\ UNCHANGED <<line, reply, username, nread, net, leaveSubs, cl, san>>
  /\ HubButQueue

\* scanner.Scan(): a line, or false on EOF or on a read error (the peer's side
\* is gone)
ScanFrom(c, ls) ==
  /\ pc[c] = "scan"
  /\ \/ /\ net[c] # "broken"
        /\ nread[c] < MaxLines
        /\ \E l \in ls :
              /\ line' = [line EXCEPT ![c] = l]
              /\ nread' = [nread EXCEPT ![c] = @ + 1]
              /\ pc' = [pc EXCEPT ![c] = "dispatch"]
        /\ UNCHANGED net
     \/ /\ net[c] # "broken"
        /\ pc' = [pc EXCEPT ![c] = "leaveMsg"]
        /\ UNCHANGED <<line, nread, net>>
     \/ /\ net[c] # "stalled"
        /\ net' = [net EXCEPT ![c] = "broken"]
        /\ pc' = [pc EXCEPT ![c] = "leaveMsg"]
        /\ UNCHANGED <<line, nread>>
  /\ UNCHANGED <<reply, username, leaveSubs, cl, san>>
  /\ HubIdle

\* the peers of Spec send the lines of Lines
Scan(c) == ScanFrom(c, Lines)

\* ---- the dispatch of handleConn, as functions of the line
\* line := strings.TrimSpace(scanner.Text())
Trimmed(l) ==
  IF l.has THEN [l EXCEPT !.text = TrimLeft(@, Spaces)]
  ELSE [l EXCEPT !.text = TrimSpace(@)]

IsBlank(l) == ~l.has /\ l.text = <<>>
\* strings.EqualFold(line, "MENU")
IsMenu(l) == ~l.has /\ EqualFold(l.text, MENU)
\* strings.HasPrefix(line, "ORDER")
IsOrder(l) == HasPrefix(l.text, ORDER)
\* line == "/quit"
IsQuit(l) == ~l.has /\ l.text = QUIT
\* strings.CutPrefix(line, "/name ")
IsName(l) == HasPrefix(l.text, NAME)
Desired(l) == SubSeq(l.text, Len(NAME) + 1, Len(l.text))

\* json.Unmarshal([]byte(raw), &ord) with raw := TrimSpace(line[len("ORDER"):]):
\* the error (anything between ORDER and the JSON text, no JSON object, or a
\* "quantity" that is no JSON integer), and the order decoded
UnmarshalErr(l) ==
  \/ TrimSpace(SubSeq(l.text, Len(ORDER) + 1, Len(l.text))) # <<>>
  \/ ~l.has
  \/ ~l.json.ok
  \/ l.json.qty.t \in {"str", "float"}
Unmarshal(l) ==
  [Name |-> l.json.name, ItemID |-> l.json.item,
   Quantity |-> IF l.json.qty.t = "int" THEN l.json.qty.v ELSE 0]

\* the quantity after the fallback re-parse into map[string]any, which is
\* reached with a quantity <= 0 and no Unmarshal error
Quantity(l) ==
  LET q == Unmarshal(l).Quantity IN
  IF q > 0 \/ l.json.qty.t = "none" THEN q ELSE l.json.qty.v

\* OrderError that accepts any itemId
OrderErrorNoItemTest(l) ==
  CASE UnmarshalErr(l) -> "invalid order json"
    [] TrimSpace(Unmarshal(l).Name) = <<>> -> "missing name"
    [] Quantity(l) <= 0 -> "invalid quantity"
    [] OTHER -> ""

\* the [error] reply to an ORDER line, "" when the order is accepted
OrderError(l) ==
  CASE UnmarshalErr(l) -> "invalid order json"
    [] TrimSpace(Unmarshal(l).Name) = <<>> -> "missing name"
    [] Quantity(l) <= 0 -> "invalid quantity"
    [] Unmarshal(l).ItemID \notin MenuIDs -> "unknown item"
    [] OTHER -> ""

\* OrderTotal that forgets the quantity
OrderTotalUnitPrice(l) ==
  IF Unmarshal(l).ItemID \in MenuIDs
    THEN defaultMenu[Unmarshal(l).ItemID].Price
    ELSE 0

\* total := float64(ord.Quantity) * chosen.Price
OrderTotal(l) ==
  IF Unmarshal(l).ItemID \in MenuIDs
    THEN Quantity(l) * defaultMenu[Unmarshal(l).ItemID].Price
    ELSE 0

\* the text of the [order] broadcast: quantity, item name, total
OrderText(l) ==
  [qty |-> Quantity(l),
   item |-> IF Unmarshal(l).ItemID \in MenuIDs
              THEN defaultMenu[Unmarshal(l).ItemID].Name ELSE "",
   total |-> OrderTotal(l)]

\* NewName that takes the name from the ORDER's "name" too
NewNameAlsoFromOrder(l, old) ==
  CASE IsBlank(l) \/ IsMenu(l) \/ IsQuit(l) -> old
    [] IsOrder(l) -> IF OrderError(l) = "" THEN TrimSpace(Unmarshal(l).Name)
                     ELSE old
    [] IsName(l) /\ sanitizeUsername(Desired(l)) # <<>> ->
         sanitizeUsername(Desired(l))
    [] OTHER -> old

\* the username after the (trimmed) line l, old being the one before
NewName(l, old) ==
  CASE IsBlank(l) \/ IsMenu(l) \/ IsOrder(l) \/ IsQuit(l) -> old
    [] IsName(l) /\ sanitizeUsername(Desired(l)) # <<>> ->
         sanitizeUsername(Desired(l))
    [] OTHER -> old

\* ReplyTo that answers a /name for the current username like a rename
ReplyToNoUnchanged(l, old) ==
  CASE IsBlank(l) -> NoReply
    [] IsMenu(l) -> Reply("menu", "", 0)
    [] IsOrder(l) -> IF OrderError(l) = "" THEN Reply("ok", "", OrderTotal(l))
                     ELSE Reply("error", OrderError(l), 0)
    [] IsQuit(l) -> NoReply
    [] IsName(l) /\ sanitizeUsername(Desired(l)) = <<>> ->
         Reply("error", "invalid username", 0)
    [] OTHER -> NoReply

\* what the handler writes to its connection for the (trimmed) line l
ReplyTo(l, old) ==
  CASE IsBlank(l) -> NoReply
    [] IsMenu(l) -> Reply("menu", "", 0)
    [] IsOrder(l) -> IF OrderError(l) = "" THEN Reply("ok", "", OrderTotal(l))
                     ELSE Reply("error", OrderError(l), 0)
    [] IsQuit(l) -> NoReply
    [] IsName(l) /\ sanitizeUsername(Desired(l)) = <<>> ->
         Reply("error", "invalid username", 0)
    [] IsName(l) /\ sanitizeUsername(Desired(l)) = old ->
         Reply("info", "username unchanged", 0)
    [] OTHER -> NoReply

\* BroadcastFor that also broadcasts a MENU line as chat text
BroadcastForAlsoMenu(l, old) ==
  CASE IsBlank(l) \/ IsQuit(l) -> [kind |-> "none", arg |-> <<>>]
    [] IsMenu(l) -> [kind |-> "chat", arg |-> l]
    [] IsOrder(l) -> IF OrderError(l) = ""
                       THEN [kind |-> "order", arg |-> OrderText(l)]
                       ELSE [kind |-> "none", arg |-> <<>>]
    [] IsName(l) -> IF NewName(l, old) # old
                      THEN [kind |-> "rename", arg |-> NewName(l, old)]
                      ELSE [kind |-> "none", arg |-> <<>>]
    [] OTHER -> [kind |-> "chat", arg |-> l]

\* the broadcast the handler submits for the (trimmed) line l: its kind and
\* text ("none": no broadcast); none of them excludes a connection
BroadcastFor(l, old) ==
  CASE IsBlank(l) \/ IsMenu(l) \/ IsQuit(l) -> [kind |-> "none", arg |-> <<>>]
    [] IsOrder(l) -> IF OrderError(l) = ""
                       THEN [kind |-> "order", arg |-> OrderText(l)]
                       ELSE [kind |-> "none", arg |-> <<>>]
    [] IsName(l) -> IF NewName(l, old) # old
                      THEN [kind |-> "rename", arg |-> NewName(l, old)]
                      ELSE [kind |-> "none", arg |-> <<>>]
    [] OTHER -> [kind |-> "chat", arg |-> l]

\* the scan loop's decisions for every line a handler can hold and every
\* username it can have, tabulated once: the broadcast, the reply, the
\* username afterwards and whether the loop ends
Dispatched ==
  [l \in Lines \cup MoreLines |->
    [u \in Names |->
      [b |-> BroadcastFor(Trimmed(l), u),
       r |-> ReplyTo(Trimmed(l), u),
       n |-> NewName(Trimmed(l), u),
       quit |-> IsQuit(Trimmed(l))]]]

\* the body of the scan loop for one line, up to the reply: the broadcast is
\* queued (with the old username in it), the username set, the reply chosen
Dispatch(c) ==
  /\ pc[c] = "dispatch"
  /\ LET d == Dispatched[line[c]][username[c]]
     IN  /\ IF d.b.kind = "none"
               THEN UNCHANGED <<msgCh, seq>>
               ELSE Submit(d.b.kind, c, username[c], d.b.arg, NoConn)
         /\ username' = [username EXCEPT ![c] = d.n]
         /\ reply' = [reply EXCEPT ![c] = d.r]
         /\ pc' = [pc EXCEPT ![c] =
                     CASE d.quit -> "leaveMsg"
                       [] d.r.kind = "ok" -> "ack"
                       [] d.r.kind # "none" -> "reply"
                       [] OTHER -> "scan"]
  /\ line' = [line EXCEPT ![c] = NoLine]
  /\ UNCHANGED <<nread, net, leaveSubs, cl, san>>
  /\ HubButQueue

\* fmt.Fprintln(c, ...) of the menu, of an [error] line or of the [info] line
WriteReply(c) ==
  /\ pc[c] = "reply"
  /\ WriteDirect(c, "scan")
  /\ reply' = [reply EXCEPT ![c] = NoReply]
  /\ UNCHANGED <<line, username, nread, leaveSubs, cl, san>>
  /\ HubIdle

\* fmt.Fprintf(c, "OK|%.2f\n", total) after the [order] broadcast is queued
Ack(c) ==
  /\ pc[c] = "ack"
  /\ WriteDirect(c, "scan")
  /\ reply' = [reply EXCEPT ![c] = NoReply]
  /\ UNCHANGED <<line, username, nread, leaveSubs, cl, san>>
  /\ HubIdle

\* LeaveMsg that goes to the deferred Leave without the [leave] broadcast
LeaveMsgSkipped(c) ==
  /\ pc[c] = "leaveMsg"
  /\ pc' = [pc EXCEPT ![c] = "leave"]
  /\ UNCHANGED <<line, reply, username, nread, net, leaveSubs, cl, san>>
  /\ HubIdle

\* after the loop: h.msgCh <- broadcast{"[leave] ..."}
LeaveMsg(c) ==
  /\ pc[c] = "leaveMsg"
  /\ Submit("leave", c, username[c], <<>>, NoConn)
  /\ leaveSubs' = [leaveSubs EXCEPT ![c] = Append(@, username[c])]
  /\ pc' = [pc EXCEPT ![c] = "leave"]
  /\ UNCHANGED <<line, reply, username, nread, net, cl, san>>
  /\ HubButQueue

\* the deferred h.leaveCh <- c
SendLeave(c) ==
  /\ pc[c] = "leave"
  /\ HubLeave(c)
  /\ pc' = [pc EXCEPT ![c] = "done"]
  /\ UNCHANGED <<line, reply, username, nread, net, leaveSubs, seq, cl, san>>

\* Hub.Run's own steps
HubStep ==
  /\ \/ HubTake
     \/ \E c \in Conns : HubIter(c)
     \/ HubPassEnd
  /\ UNCHANGED <<pc, line, reply, username, nread, leaveSubs, seq, cl, san>>

\* the steps of handleConn(h, c) that do not wait for the peer
Handler(c) ==
  \/ SendJoin(c)
  \/ Greet(c)
  \/ Announce(c)
  \/ Dispatch(c)
  \/ WriteReply(c)
  \/ Ack(c)
  \/ LeaveMsg(c)
  \/ SendLeave(c)

\* ------------------------------------------------------------------ client
\* net.Conn values of the client: 0 is nil, g the connection of the g-th dial
NilConn == 0
Dials == 1..MaxDials

\* lines on the wire to the client: the two greeting lines, the replies of
\* handleConn (menu JSON, OK|total, [error] ...) and the Hub's broadcasts
\* ([order] ... and every other one)
ReplyLines == {"menu", "ok", "error"}
BroadcastLines == {"order", "other"}
\* strings.HasPrefix(msgText, "[order]"): "order" and "order2" stand for two
\* different [order] lines
OrderLines == {"order", "order2"}
HasOrderPrefix(l) == l \in OrderLines

\* a tea.Cmd in flight: conn is the connection (and its bufio.Reader) the
\* command was built with, pc its position, res/got the message it returns;
\* shared records whether its read was issued while the other consumer had
\* a request outstanding (for a poll) or a read in progress (for a request)
\* on the same reader
Cmd(k, g, p, r, l) ==
  [kind |-> k, conn |-> g, pc |-> p, res |-> r, got |-> l, shared |-> FALSE]
One(c) == SetToBag({c})
Running == BagToSet(cmds)
Foreground == {"menu", "order"}
\* the commands that are inside reader.ReadString on connection g
PollReading(g) ==
  {c \in Running : c.kind = "poll" /\ c.conn = g /\ c.pc = "reading"}
CallReading(g) ==
  {c \in Running : c.kind \in Foreground /\ c.conn = g /\ c.pc = "reading"}
\* the requests on g that are written and not answered yet
CallOutstanding(g) ==
  {c \in Running : c.kind \in Foreground /\ c.conn = g
                     /\ c.pc \in {"sleep", "reading"}}

\* initialModel and Init(): nothing but the connect command
ClientInit ==
  /\ m = [conn |-> NilConn, loading |-> FALSE, form |-> FALSE, menu |-> FALSE,
          broadcastListening |-> FALSE, pauseBroadcast |-> FALSE,
          err |-> FALSE, broadcasts |-> <<>>, quit |-> FALSE]
  /\ cmds = One(Cmd("connect", NilConn, "new", "", ""))
  /\ sock = [g \in Dials |->
              [state |-> "none", inbox |-> <<>>, reqs |-> <<>>, greeted |-> FALSE]]
  /\ calls = 0
  /\ bcasts = 0

\* conn.Close() by the client
Closed(g) == [sock EXCEPT ![g].state = "closed", ![g].inbox = <<>>, ![g].reqs = <<>>]

\* the outcomes of fmt.Fprintln(conn, ...) by the client: it fails on a
\* connection the client has closed, succeeds on an open one, and on one the
\* server has closed it succeeds (the line is lost) or fails
WriteOk(g) ==
  CASE sock[g].state = "open" -> {TRUE}
    [] sock[g].state = "eof" -> {TRUE, FALSE}
    [] OTHER -> {FALSE}
\* the requests the server has before it after the client has written req
Sent(g, req) ==
  IF sock[g].state = "open" THEN Append(sock[g].reqs, req) ELSE sock[g].reqs

\* ---- the commands
\* connectCmd: net.DialTimeout
Dial ==
  \E c \in Running :
    /\ c.kind = "connect" /\ c.pc = "new"
    /\ \/ \E g \in Dials :
            /\ sock[g].state = "none"
            /\ \A h \in Dials : h < g => sock[h].state # "none"
            /\ sock' = [sock EXCEPT ![g].state = "open"]
            /\ cmds' = (cmds (-) One(c)) (+) One(Cmd("connect", g, "done", "connected", ""))
       \/ /\ cmds' = (cmds (-) One(c)) (+) One(Cmd("connect", NilConn, "done", "failed", ""))
          /\ UNCHANGED sock
    /\ UNCHANGED <<m, calls, bcasts, server, san>>

\* fetchMenuCmd up to the call of reader.ReadString: the request is written
MenuStart ==
  \E c \in Running :
    /\ c.kind = "menu" /\ c.pc = "new"
    /\ \E ok \in WriteOk(c.conn) :
       IF ok
         THEN /\ sock' = [sock EXCEPT ![c.conn].reqs = Sent(c.conn, "MENU")]
              /\ cmds' = (cmds (-) One(c))
                           (+) One([c EXCEPT !.pc = "reading",
                                             !.shared = PollReading(c.conn) # {}])
         ELSE /\ cmds' = (cmds (-) One(c)) (+) One([c EXCEPT !.pc = "done", !.res = "err"])
              /\ UNCHANGED sock
    /\ UNCHANGED <<m, calls, bcasts, server, san>>

\* submitOrderCmd up to time.Sleep(150ms): the request is written
OrderStart ==
  \E c \in Running :
    /\ c.kind = "order" /\ c.pc = "new"
    /\ \E ok \in WriteOk(c.conn) :
       IF ok
         THEN /\ sock' = [sock EXCEPT ![c.conn].reqs = Sent(c.conn, "ORDER")]
              /\ cmds' = (cmds (-) One(c)) (+) One([c EXCEPT !.pc = "sleep"])
         ELSE /\ cmds' = (cmds (-) One(c)) (+) One([c EXCEPT !.pc = "done", !.res = "err"])
              /\ UNCHANGED sock
    /\ UNCHANGED <<m, calls, bcasts, server, san>>

\* submitOrderCmd: the sleep is over, reader.ReadString is called
OrderRead ==
  \E c \in Running :
    /\ c.kind = "order" /\ c.pc = "sleep"
    /\ cmds' = (cmds (-) One(c))
                 (+) One([c EXCEPT !.pc = "reading",
                                   !.shared = PollReading(c.conn) # {}])
    /\ UNCHANGED <<m, sock, calls, bcasts, server, san>>

\* listenForBroadcastsCmd up to the call of reader.ReadString; with a nil
\* conn it returns nil, which is no message
PollStart ==
  \E c \in Running :
    /\ c.kind = "poll" /\ c.pc = "new"
    /\ cmds' = IF c.conn = NilConn THEN cmds (-) One(c)
               ELSE (cmds (-) One(c))
                      (+) One([c EXCEPT !.pc = "reading",
                                        !.shared = CallOutstanding(c.conn) # {}])
    /\ UNCHANGED <<m, sock, calls, bcasts, server, san>>

\* reader.ReadString('\n') returns in fetchMenuCmd, submitOrderCmd or
\* listenForBroadcastsCmd: with the next line of the stream, with the deadline
\* error when no line has arrived, with another error on a connection the
\* client has closed or on one the server has closed, once the lines that
\* arrived before are read.
\* Two calls on one bufio.Reader at a time are a data race; of its outcomes
\* this is the one in which each call still gets a whole line.
ReadEnd ==
  \E c \in Running :
    /\ c.pc = "reading"
    /\ LET d == [c EXCEPT !.pc = "done"] IN
       CASE \/ sock[c.conn].state \notin {"open", "eof"}
            \/ sock[c.conn].state = "eof" /\ sock[c.conn].inbox = <<>> ->
              /\ cmds' = (cmds (-) One(c)) (+) One([d EXCEPT !.res = "err"])
              /\ UNCHANGED sock
         [] sock[c.conn].state \in {"open", "eof"}
              /\ sock[c.conn].inbox # <<>> ->
              /\ cmds' = (cmds (-) One(c))
                           (+) One([d EXCEPT !.res = "line",
                                             !.got = Head(sock[c.conn].inbox)])
              /\ sock' = [sock EXCEPT ![c.conn].inbox = Tail(@)]
         [] OTHER ->
              /\ cmds' = (cmds (-) One(c)) (+) One([d EXCEPT !.res = "timeout"])
              /\ UNCHANGED sock
    /\ UNCHANGED <<m, calls, bcasts, server, san>>

\* ---- the server's end of the client's connection (handleConn, Hub.Run)
\* the welcome line and the usage hint
ServerGreet(g) ==
  /\ sock[g].state = "open"
  /\ ~sock[g].greeted
  /\ sock' = [sock EXCEPT ![g].greeted = TRUE,
                          ![g].inbox = @ \o <<"welcome", "usage">>]
  /\ UNCHANGED <<m, cmds, calls, bcasts, server, san>>

\* the scan loop takes a request: MENU is answered with the menu; ORDER queues
\* the [order] broadcast and then writes OK|total, and the Hub writes the
\* broadcast to this connection before or after that
ServerHandle(g) ==
  /\ sock[g].state = "open"
  /\ sock[g].reqs # <<>>
  /\ \E ls \in IF Head(sock[g].reqs) = "MENU" THEN {<<"menu">>}
               ELSE {<<"ok", "order">>, <<"order", "ok">>} :
       sock' = [sock EXCEPT ![g].reqs = Tail(@), ![g].inbox = @ \o ls]
  /\ UNCHANGED <<m, cmds, calls, bcasts, server, san>>

\* the Hub fans a broadcast of another session out to this connection
ServerBroadcast(g) ==
  /\ sock[g].state = "open"
  /\ bcasts < MaxBcasts
  /\ bcasts' = bcasts + 1
  /\ \E l \in BroadcastLines : sock' = [sock EXCEPT ![g].inbox = Append(@, l)]
  /\ UNCHANGED <<m, cmds, calls, server, san>>

\* the server's end is closed (Hub.Run after the Leave, or the process ends):
\* what is written to the client stays readable, then the reads end in EOF
ServerClose(g) ==
  /\ sock[g].state = "open"
  /\ sock' = [sock EXCEPT ![g].state = "eof", ![g].reqs = <<>>]
  /\ UNCHANGED <<m, cmds, calls, bcasts, server, san>>

\* connections dialled, being dialled, or failed and not reported yet
Dialed ==
  Cardinality({g \in Dials : sock[g].state # "none"})
    + CopiesIn(Cmd("connect", NilConn, "new", "", ""), cmds)
    + CopiesIn(Cmd("connect", NilConn, "done", "failed", ""), cmds)

\* ---- Update
Poll(g) == Cmd("poll", g, "new", "", "")

\* Update while the form is open: every message goes to the form, which acts
\* on keys only; the user confirms or declines the order, or aborts the form
FormCompleted(valid, confirm) ==
  /\ ~m.quit /\ m.form
  /\ CASE ~valid ->
            \* the quantity does not parse
            /\ m' = [m EXCEPT !.form = FALSE, !.err = TRUE]
            /\ UNCHANGED <<cmds, calls>>
       [] valid /\ confirm /\ m.conn # NilConn ->
            /\ calls < MaxCalls
            /\ calls' = calls + 1
            /\ m' = [m EXCEPT !.form = FALSE, !.err = FALSE, !.loading = TRUE,
                              !.pauseBroadcast = TRUE]
            /\ cmds' = cmds (+) One(Cmd("order", m.conn, "new", "", ""))
       [] OTHER ->
            /\ m' = [m EXCEPT !.form = FALSE]
            /\ UNCHANGED <<cmds, calls>>
  /\ UNCHANGED <<sock, bcasts, server, san>>

FormAborted ==
  /\ ~m.quit /\ m.form
  /\ m' = [m EXCEPT !.form = FALSE]
  /\ UNCHANGED <<cmds, sock, calls, bcasts, server, san>>

\* a command's message reaches Update while the form is open: the form drops it
FormSwallows ==
  \E c \in Running :
    /\ ~m.quit /\ m.form
    /\ c.pc = "done"
    /\ cmds' = cmds (-) One(c)
    /\ UNCHANGED <<m, sock, calls, bcasts, server, san>>

\* case connectedMsg: the new connection, and up to two lines drained from it
UpdateConnected ==
  \E c \in Running :
    /\ ~m.quit /\ ~m.form
    /\ c.kind = "connect" /\ c.pc = "done" /\ c.res = "connected"
    /\ m' = [m EXCEPT !.conn = c.conn]
    /\ LET n == IF Len(sock[c.conn].inbox) < 2 THEN Len(sock[c.conn].inbox) ELSE 2
       IN  sock' = [sock EXCEPT ![c.conn].inbox = SubSeq(@, n + 1, Len(@))]
    /\ cmds' = cmds (-) One(c)
    /\ UNCHANGED <<calls, bcasts, server, san>>

\* UpdateMenuLoaded that takes a deadline expiry for an empty answer
UpdateMenuLoadedTimeoutOk ==
  \E c \in Running :
    /\ ~m.quit /\ ~m.form
    /\ c.kind = "menu" /\ c.pc = "done"
    /\ m' = IF (c.res = "line" /\ c.got = "menu") \/ c.res = "timeout"
              THEN [m EXCEPT !.loading = FALSE, !.err = FALSE, !.menu = TRUE,
                             !.form = TRUE]
              ELSE [m EXCEPT !.loading = FALSE, !.err = TRUE]
    /\ cmds' = cmds (-) One(c)
    /\ UNCHANGED <<sock, calls, bcasts, server, san>>

\* case menuLoadedMsg
UpdateMenuLoaded ==
  \E c \in Running :
    /\ ~m.quit /\ ~m.form
    /\ c.kind = "menu" /\ c.pc = "done"
    /\ m' = IF c.res = "line" /\ c.got = "menu"
              THEN [m EXCEPT !.loading = FALSE, !.err = FALSE, !.menu = TRUE,
                             !.form = TRUE]
              ELSE [m EXCEPT !.loading = FALSE, !.err = TRUE]
    /\ cmds' = cmds (-) One(c)
    /\ UNCHANGED <<sock, calls, bcasts, server, san>>

\* case orderSubmittedMsg: total > 0 exactly when the line read is OK|total
UpdateOrderSubmitted ==
  \E c \in Running :
    /\ ~m.quit /\ ~m.form
    /\ c.kind = "order" /\ c.pc = "done"
    /\ LET total == c.res = "line" /\ c.got = "ok"
           listen == m.broadcastListening \/ total
       IN  /\ m' = [m EXCEPT !.loading = FALSE, !.pauseBroadcast = FALSE,
                             !.err = (c.res # "line"),
                             !.broadcastListening = listen]
           /\ cmds' = IF listen THEN (cmds (-) One(c)) (+) One(Poll(m.conn))
                      ELSE cmds (-) One(c)
    /\ UNCHANGED <<sock, calls, bcasts, server, san>>

HistoryCap == 10
\* AppendCapped that drops the new line when the history is full
AppendCappedKeepsOldest(h, l) ==
  IF Len(h) + 1 > HistoryCap THEN h ELSE Append(h, l)

\* m.broadcasts = append(m.broadcasts, msgText), and m.broadcasts[1:] when
\* that makes more than 10
AppendCapped(h, l) ==
  IF Len(h) + 1 > HistoryCap THEN Tail(Append(h, l)) ELSE Append(h, l)

\* case broadcastMsg: an [order] line goes to the history, and the next poll
\* is issued (after 50ms when pauseBroadcast is set)
UpdateBroadcast ==
  \E c \in Running :
    /\ ~m.quit /\ ~m.form
    /\ c.kind = "poll" /\ c.pc = "done" /\ c.res \in {"line", "timeout"}
    /\ m' = IF c.res = "line" /\ HasOrderPrefix(c.got)
              THEN [m EXCEPT !.broadcasts = AppendCapped(@, c.got)]
              ELSE m
    /\ cmds' = (cmds (-) One(c)) (+) One(Poll(m.conn))
    /\ UNCHANGED <<sock, calls, bcasts, server, san>>

\* case statusMsg: "Connect failed: ..." is shown; "Connection closed: ..."
\* closes and drops the current connection
UpdateStatus ==
  \E c \in Running :
    /\ ~m.quit /\ ~m.form
    /\ c.pc = "done"
    /\ \/ c.kind = "connect" /\ c.res = "failed" /\ UNCHANGED <<m, sock>>
       \/ /\ c.kind = "poll" /\ c.res = "err"
          /\ m' = [m EXCEPT !.conn = NilConn, !.broadcastListening = FALSE]
          /\ sock' = IF m.conn # NilConn THEN Closed(m.conn) ELSE sock
    /\ cmds' = cmds (-) One(c)
    /\ UNCHANGED <<calls, bcasts, server, san>>

\* KeyN without the test of m.loading
KeyNWhileLoading ==
  /\ ~m.quit /\ ~m.form
  /\ m.conn # NilConn
  /\ IF m.menu
       THEN /\ m' = [m EXCEPT !.err = FALSE, !.form = TRUE]
            /\ UNCHANGED <<cmds, calls>>
       ELSE /\ calls < MaxCalls
            /\ calls' = calls + 1
            /\ m' = [m EXCEPT !.err = FALSE, !.loading = TRUE]
            /\ cmds' = cmds (+) One(Cmd("menu", m.conn, "new", "", ""))
  /\ UNCHANGED <<sock, bcasts, server, san>>

\* case tea.KeyMsg "n" (nothing happens while loading or without a
\* connection): the form opens on the cached menu, or the menu is fetched
KeyN ==
  /\ ~m.quit /\ ~m.form
  /\ ~m.loading
  /\ m.conn # NilConn
  /\ IF m.menu
       THEN /\ m' = [m EXCEPT !.err = FALSE, !.form = TRUE]
            /\ UNCHANGED <<cmds, calls>>
       ELSE /\ calls < MaxCalls
            /\ calls' = calls + 1
            /\ m' = [m EXCEPT !.err = FALSE, !.loading = TRUE]
            /\ cmds' = cmds (+) One(Cmd("menu", m.conn, "new", "", ""))
  /\ UNCHANGED <<sock, bcasts, server, san>>

\* case tea.KeyMsg "r"
KeyR ==
  /\ ~m.quit /\ ~m.form
  /\ Dialed < MaxDials
  /\ sock' = IF m.conn # NilConn THEN Closed(m.conn) ELSE sock
  /\ m' = [m EXCEPT !.conn = NilConn, !.broadcastListening = FALSE]
  /\ cmds' = cmds (+) One(Cmd("connect", NilConn, "new", "", ""))
  /\ UNCHANGED <<calls, bcasts, server, san>>

\* case tea.KeyMsg "q", "ctrl+c", "esc": tea.Quit ends the program
KeyQ ==
  /\ ~m.quit /\ ~m.form
  /\ sock' = IF m.conn # NilConn THEN Closed(m.conn) ELSE sock
  /\ m' = [m EXCEPT !.quit = TRUE]
  /\ cmds' = EmptyBag
  /\ UNCHANGED <<calls, bcasts, server, san>>

ClientNext ==
  \/ Dial
  \/ MenuStart
  \/ OrderStart
  \/ OrderRead
  \/ PollStart
  \/ ReadEnd
  \/ \E g \in Dials : ServerGreet(g)
  \/ \E g \in Dials : ServerHandle(g)
  \/ \E g \in Dials : ServerBroadcast(g)
  \/ \E valid, confirm \in BOOLEAN : FormCompleted(valid, confirm)
  \/ FormAborted
  \/ FormSwallows
  \/ UpdateConnected
  \/ UpdateMenuLoaded
  \/ UpdateOrderSubmitted
  \/ UpdateBroadcast
  \/ UpdateStatus
  \/ KeyN
  \/ KeyR
  \/ KeyQ

\* startTCPServer before the first Accept
ServerInit ==
  /\ NewHub
  /\ pc = [c \in Conns |-> "join"]
  /\ line = [c \in Conns |-> NoLine]
  /\ reply = [c \in Conns |-> NoReply]
  /\ username = [c \in Conns |-> DefaultName]
  /\ nread = [c \in Conns |-> 0]
  /\ net = [c \in Conns |-> "ok"]
  /\ lastSeq = [c \in Conns |-> 0]
  /\ leaveSubs = [c \in Conns |-> <<>>]
  /\ seq = 0

\* no call of sanitizeUsername on its own
NoCall == [in |-> <<>>, out |-> <<>>, pc |-> "idle"]

Init ==
  /\ ServerInit
  /\ ClientInit
  /\ san = NoCall

Next ==
  \/ \E c \in Conns : SendJoin(c)
  \/ \E c \in Conns : Greet(c)
  \/ \E c \in Conns : Announce(c)
  \/ \E c \in Conns : Scan(c)
  \/ \E c \in Conns : Dispatch(c)
  \/ \E c \in Conns : WriteReply(c)
  \/ \E c \in Conns : Ack(c)
  \/ \E c \in Conns : LeaveMsg(c)
  \/ \E c \in Conns : SendLeave(c)
  \/ HubStep

Spec == Init /\ [][Next]_vars

ClientSpec == Init /\ [][ClientNext]_vars

\* the Go scheduler runs every goroutine that can take a step; what the peers
\* do (send a line, close, read) is not the program's to schedule
FairSpec ==
  /\ Spec
  /\ WF_vars(HubStep)
  /\ \A c \in Conns : WF_vars(Handler(c))

\* ------------------------------------------- sessions that only chat
\* the peers send chat text only: every line read is a send on h.msgCh
ChatLines == {Plain(<<"h", "i">>)}
ScanChat(c) == ScanFrom(c, ChatLines)

ChatNext ==
  \/ \E c \in Conns : SendJoin(c)
  \/ \E c \in Conns : Greet(c)
  \/ \E c \in Conns : Announce(c)
  \/ \E c \in Conns : ScanChat(c)
  \/ \E c \in Conns : Dispatch(c)
  \/ \E c \in Conns : LeaveMsg(c)
  \/ \E c \in Conns : SendLeave(c)
  \/ HubStep

\* the steps of handleConn(h, c) that do not wait for the peer, here
ChatHandler(c) ==
  \/ SendJoin(c)
  \/ Greet(c)
  \/ Announce(c)
  \/ Dispatch(c)
  \/ LeaveMsg(c)
  \/ SendLeave(c)

FairChatSpec ==
  /\ Init
  /\ [][ChatNext]_vars
  /\ WF_vars(HubStep)
  /\ \A c \in Conns : WF_vars(ChatHandler(c))

\* ----------------------------------------------- the Hub under any producers
RECURSIVE SumOver(_, _)
SumOver(f, S) ==
  IF S = {} THEN 0
  ELSE LET x == CHOOSE y \in S : TRUE IN f[x] + SumOver(f, S \ {x})

\* requests issued so far
Reqs == seq + SumOver(joinsHandled, Conns) + SumOver(leavesHandled, Conns)

\* some producer sends c on h.joinCh
ReqJoin(c) ==
  /\ Reqs < MaxReqs
  /\ HubJoin(c)
  /\ UNCHANGED <<pc, line, reply, username, nread, net, leaveSubs, seq, cl, san>>

\* some producer sends c on h.leaveCh
ReqLeave(c) ==
  /\ Reqs < MaxReqs
  /\ HubLeave(c)
  /\ UNCHANGED <<pc, line, reply, username, nread, net, leaveSubs, seq, cl, san>>

\* some producer sends broadcast{text, exclude: ex} on h.msgCh
ReqBroadcast(ex) ==
  /\ Reqs < MaxReqs
  /\ Submit("chat", NoConn, DefaultName, Plain(<<"h", "i">>), ex)
  /\ UNCHANGED <<pc, line, reply, username, nread, net, leaveSubs, cl, san>>
  /\ HubButQueue

HubNext ==
  \/ \E c \in Conns : ReqJoin(c)
  \/ \E c \in Conns : ReqLeave(c)
  \/ \E ex \in Conns \cup {NoConn} : ReqBroadcast(ex)
  \/ HubStep

HubSpec == Init /\ [][HubNext]_vars

\* ------------------------------------------- one line through the dispatch
\* handler 1 has joined, greeted and announced itself, and (when its username
\* is not the default one any more) renamed itself; its scanner has returned
\* the next line.  The Hub has fanned out what was submitted so far.
DispatchInit ==
  \E l \in Lines \cup MoreLines, u \in Names :
    LET k == IF u = DefaultName THEN 1 ELSE 2 IN
    /\ conns = {1}
    /\ msgCh = <<>>
    /\ hubPc = "select"
    /\ cur = NoMsg
    /\ pending = {}
    /\ passWrites = [c \in Conns |-> 0]
    /\ failed = {}
    /\ closes = [c \in Conns |-> 0]
    /\ joinsHandled = [c \in Conns |-> IF c = 1 THEN 1 ELSE 0]
    /\ leavesHandled = [c \in Conns |-> 0]
    /\ passesDone = k
    /\ pc = [c \in Conns |-> IF c = 1 THEN "dispatch" ELSE "join"]
    /\ line = [c \in Conns |-> IF c = 1 THEN l ELSE NoLine]
    /\ reply = [c \in Conns |-> NoReply]
    /\ username = [c \in Conns |-> IF c = 1 THEN u ELSE DefaultName]
    /\ nread = [c \in Conns |-> IF c = 1 THEN k ELSE 0]
    /\ net = [c \in Conns |-> "ok"]
    /\ lastSeq = [c \in Conns |-> IF c = 1 /\ k = 2 THEN 2 ELSE 0]
    /\ leaveSubs = [c \in Conns |-> <<>>]
    /\ seq = k
    /\ ClientInit
    /\ san = NoCall

DispatchNext ==
  \/ Dispatch(1)
  \/ WriteReply(1)
  \/ Ack(1)
  \/ HubStep

DispatchSpec == DispatchInit /\ [][DispatchNext]_vars

\* ------------------------------------------------- sanitizeUsername alone
\* the texts given to sanitizeUsername: a run of one character (none, enough
\* to come close to maxLen, or far more) followed by every text of up to
\* MaxText characters, and the texts of the documented examples
TextChars == {"a", "Z", "7", "_", "-", ".", " ", "!"}
Run(ch, n) == [i \in 1..n |-> ch]
Pads == {Run("a", 0), Run("a", maxLen - 2), Run("_", maxLen - 2),
         Run("a", 40), Run("_", maxLen)}
FreeTexts == UNION {[1..n -> TextChars] : n \in 0..MaxText}
JaneDoe == <<"J", "a", "n", "e", " ", "D", "o", "e", "!", "!">>
DotsDashes == <<".", ".", ".", "-", "-", "-">>
Texts == {p \o t : p \in Pads, t \in FreeTexts} \cup {JaneDoe, DotsDashes}

SanitizeInit ==
  /\ ServerInit
  /\ ClientInit
  /\ san \in {[in |-> t, out |-> <<>>, pc |-> "call"] : t \in Texts}

\* the call returns
SanitizeCall ==
  /\ san.pc = "call"
  /\ san' = [san EXCEPT !.out = sanitizeUsername(san.in), !.pc = "done"]
  /\ UNCHANGED <<server, cl>>

SanitizeSpec == SanitizeInit /\ [][SanitizeCall]_vars

\* --------------------------------------------- the client with its poller
\* the client after its first order: connected and greeted, the menu cached,
\* OK|total read and handled, so that the poller has just been started and
\* the [order] broadcast of the client's own order is still unread
PollerInit ==
  /\ ServerInit
  /\ san = NoCall
  /\ m = [conn |-> 1, loading |-> FALSE, form |-> FALSE, menu |-> TRUE,
          broadcastListening |-> TRUE, pauseBroadcast |-> FALSE,
          err |-> FALSE, broadcasts |-> <<>>, quit |-> FALSE]
  /\ cmds = One(Poll(1))
  /\ sock = [g \in Dials |->
              IF g = 1
                THEN [state |-> "open", inbox |-> <<"order">>, reqs |-> <<>>,
                      greeted |-> TRUE]
                ELSE [state |-> "none", inbox |-> <<>>, reqs |-> <<>>,
                      greeted |-> FALSE]]
  /\ calls = 2
  /\ bcasts = 0

\* from there on the server can also close its end of a connection
PollerNext ==
  \/ Dial
  \/ OrderStart
  \/ OrderRead
  \/ PollStart
  \/ ReadEnd
  \/ \E g \in Dials : ServerGreet(g)
  \/ \E g \in Dials : ServerHandle(g)
  \/ \E g \in Dials : ServerBroadcast(g)
  \/ \E g \in Dials : ServerClose(g)
  \/ \E valid, confirm \in BOOLEAN : FormCompleted(valid, confirm)
  \/ FormAborted
  \/ FormSwallows
  \/ UpdateConnected
  \/ UpdateOrderSubmitted
  \/ UpdateBroadcast
  \/ UpdateStatus
  \/ KeyN
  \/ KeyR
  \/ KeyQ

PollerSpec == PollerInit /\ [][PollerNext]_vars

\* ------------------------------------------------- the poller's history
\* the Hub fans out the broadcasts of other sessions to the polling client:
\* [order] lines of two kinds and other lines
HistoryLines == OrderLines \cup {"other"}
ServerBroadcastMany(g) ==
  /\ sock[g].state = "open"
  /\ bcasts < MaxHistoryLines
  /\ Len(sock[g].inbox) < MaxUnread
  /\ bcasts' = bcasts + 1
  /\ \E l \in HistoryLines : sock' = [sock EXCEPT ![g].inbox = Append(@, l)]
  /\ UNCHANGED <<m, cmds, calls, server, san>>

\* the client polls, and the user opens the form and aborts it
HistoryNext ==
  \/ PollStart
  \/ ReadEnd
  \/ \E g \in Dials : ServerBroadcastMany(g)
  \/ UpdateBroadcast
  \/ KeyN
  \/ FormAborted
  \/ FormSwallows

HistorySpec == PollerInit /\ [][HistoryNext]_vars

\* ------------------------------------------------- orders the server rejects
\* handleConn answers an ORDER it does not accept (invalid json, missing
\* name, invalid quantity, unknown item) with one [error] line and queues no
\* broadcast
ServerReject(g) ==
  /\ sock[g].state = "open"
  /\ sock[g].reqs # <<>>
  /\ Head(sock[g].reqs) = "ORDER"
  /\ sock' = [sock EXCEPT ![g].reqs = Tail(@), ![g].inbox = Append(@, "error")]
  /\ UNCHANGED <<m, cmds, calls, bcasts, server, san>>

RejectNext ==
  \/ PollerNext
  \/ \E g \in Dials : ServerReject(g)

RejectSpec == PollerInit /\ [][RejectNext]_vars

\* ------------------------------------------------------------------ claims
\* handlers whose Join the Hub has received and whose Leave it has not
JoinedNotLeft == {c \in Conns : pc[c] \notin {"join", "done"}}

\* C1: whatever the interleaving of the handlers' Join and Leave requests,
\* the registry holds exactly the connections that were joined and have not
\* left.
C1_RegistryIsJoinedNotLeft == conns = JoinedNotLeft

\* one connection has joined and left while another one is still a member
C1_Witness ==
  \E c, d \in Conns : pc[c] = "done" /\ closes[c] = 1 /\ d \in conns

\* C2: in a fan-out pass the Hub writes the line zero times to the excluded
\* connection and exactly once to every other registered connection: at
\* every point of the pass the connections already visited have one write
\* each, the excluded one and those still to visit have none.
C2_ExcludeSkippedOthersOnce ==
  hubPc # "select" =>
    \A c \in Conns :
      passWrites[c] =
        IF c \in conns \ pending /\ ~(cur.exclude # NoConn /\ c = cur.exclude)
          THEN 1 ELSE 0

\* a pass over a registry that holds the excluded connection and another one
\* has run to its end
C2_Witness ==
  /\ hubPc = "fanout"
  /\ pending = {}
  /\ cur.exclude \in conns
  /\ \E c \in conns : c # cur.exclude /\ passWrites[c] = 1

\* C3: every recipient gets the broadcasts in submission order: the queue
\* holds the latest submissions oldest first, and what is still to be written
\* to a connection (the line of the running pass, then the queue) was
\* submitted after everything the connection has received.
C3_PerRecipientSubmissionOrder ==
  /\ \A i \in 1..Len(msgCh) : msgCh[i].seq = seq - Len(msgCh) + i
  /\ \A c \in Conns :
       /\ \A i \in 1..Len(msgCh) : lastSeq[c] < msgCh[i].seq
       /\ hubPc # "select" =>
            /\ lastSeq[c] <= cur.seq
            /\ c \in pending => lastSeq[c] < cur.seq
            /\ \A i \in 1..Len(msgCh) : cur.seq < msgCh[i].seq

\* a connection that has received a broadcast is about to be written one of
\* another producer while a third broadcast waits in the queue
C3_Witness ==
  \E c \in Conns :
    /\ lastSeq[c] > 0
    /\ hubPc = "fanout"
    /\ c \in pending
    /\ cur.from # c
    /\ msgCh # <<>>

\* broadcasts the handlers of Spec can submit: [join], one per line, [leave]
MaxSeq == NumConns * (MaxLines + 2)

\* C4: a write to a stalled peer that never returns does not stop the rest:
\* every broadcast submitted is eventually fanned out to the end, and no
\* handler stays blocked on the submission of its broadcast.
C4_StalledPeerDoesNotStopDelivery ==
  /\ \A k \in 1..MaxSeq : (seq >= k) ~> (passesDone >= k)
  /\ \A c \in Conns :
       (pc[c] \in {"announce", "leaveMsg"}) ~> (pc[c] \notin {"announce", "leaveMsg"})

\* C5: a failed write does not end the pass: when the pass is over every
\* other registered, non-excluded connection has been written the line (and
\* has received it), the failing connection is still registered and the Hub
\* goes back to its select.
C5_WriteErrorIsolated ==
  (hubPc = "fanout" /\ failed # {}) =>
    /\ failed \subseteq conns
    /\ pending = {} =>
         /\ ENABLED HubPassEnd
         /\ \A c \in conns \ failed :
              ~Excluded(cur, c) => passWrites[c] = 1 /\ lastSeq[c] = cur.seq

\* a pass in which one write failed has delivered the line to another
\* connection
C5_Witness ==
  /\ hubPc = "fanout"
  /\ pending = {}
  /\ failed # {}
  /\ \E c \in conns \ failed : lastSeq[c] = cur.seq

C7_LeaveOnceThenClosed ==
  /\ [](\A c \in Conns : leavesHandled[c] <= 1 /\ closes[c] <= 1)
  /\ \A c \in Conns :
       (pc[c] \in {"leaveMsg", "leave"}) ~> (closes[c] = 1 /\ c \notin conns)

\* C8: a Leave for a connection that is not in the registry changes nothing:
\* the registry is the same, the connection is not closed, nothing is
\* written.
C8_LeaveOfNonMemberIsNoOp ==
  [][\A c \in Conns :
       (leavesHandled'[c] # leavesHandled[c] /\ c \notin conns) =>
         UNCHANGED <<conns, closes, passWrites, lastSeq, net, msgCh, hubPc>>]_vars

\* the Hub has handled a Leave for a connection that had already left, and
\* one for a connection that never joined
C8_Witness ==
  /\ \E c \in Conns : leavesHandled[c] = 2 /\ joinsHandled[c] = 1 /\ closes[c] = 1
  /\ \E c \in Conns : leavesHandled[c] = 1 /\ joinsHandled[c] = 0 /\ closes[c] = 0

\* C9: no poll read and foreground read (menu fetch or order submit) are in
\* progress on the same buffered reader at the same time.  Stated for the
\* polls that were issued after the request was written: the ones the
\* 150ms sleep of submitOrderCmd cannot have waited out.
C9_ReadsNeverOverlap ==
  \A g \in Dials :
    \A p \in PollReading(g) : p.shared => CallReading(g) = {}

\* C10: no cross-talk between the two consumers of the reader: a poll issued
\* while a request is outstanding does not take a reply line (menu JSON,
\* OK|..., [error] ...), and a request that starts to read while a poll is
\* reading does not take a broadcast line.
C10_NoCrossTalk ==
  \A c \in Running :
    (c.pc = "done" /\ c.res = "line" /\ c.shared) =>
      /\ c.kind = "poll" => c.got \notin ReplyLines
      /\ c.kind \in Foreground => c.got \notin BroadcastLines

\* C11: the line a client reads as the answer to its (valid) ORDER is the
\* OK|total line, although the server also sends the [order] broadcast to the
\* same connection.  Stated for the quiet case, in which no other session
\* has broadcast anything and the client has not started its poller yet:
\* there the line read is not the [order] broadcast.
C11_OrderAnsweredWithOk ==
  \A c \in Running :
    (/\ c.kind = "order" /\ c.pc = "done" /\ c.res = "line"
     /\ bcasts = 0
     /\ ~m.broadcastListening
     /\ \A p \in Running : p.kind # "poll")
      => c.got # "order"

\* the newest submission, as the last element of the queue
Newest == msgCh'[Len(msgCh')]

C13_RejectedOrder ==
  /\ [][\A c \in Conns :
         LET l == line[c]
             badItem == l.json.item \notin {"latte", "cap", "esp"}
             badRest == \/ ~l.json.ok
                        \/ TrimSpace(l.json.name) = <<>>
                        \/ l.json.qty.t = "none"
                        \/ l.json.qty.t = "int" /\ l.json.qty.v <= 0
         IN  (/\ pc[c] = "dispatch" /\ pc'[c] # "dispatch"
              /\ l.text = ORDER /\ l.has
              /\ (badItem \/ badRest))
             => /\ seq' = seq /\ msgCh' = msgCh
                /\ username' = username
                /\ conns' = conns
                /\ reply'[c].kind = "error"
                /\ (~badRest /\ l.json.qty.t = "int")
                     => reply'[c].text = "unknown item"
                /\ pc'[c] = "reply"
                /\ \A d \in Conns \ {c} : reply'[d] = reply[d]]_vars
  /\ [][\A c \in Conns :
         (pc[c] = "reply" /\ pc'[c] # "reply")
           => /\ seq' = seq /\ msgCh' = msgCh
              /\ \A d \in Conns \ {c} : net'[d] = net[d] /\ pc'[d] = pc[d]
              /\ pc'[c] \in {"scan", "stuck"}
              /\ reply'[c] = NoReply]_vars

\* an order for an item that is not on the menu is about to be answered
C13_Witness ==
  /\ pc[1] = "reply"
  /\ reply[1] = Reply("error", "unknown item", 0)
  /\ msgCh = <<>>

\* a connection whose Join the Hub has received twice and whose Leave it has
\* not received, visited by the running fan-out pass and not excluded
JoinedTwiceAndVisited(c) ==
  /\ joinsHandled[c] >= 2
  /\ leavesHandled[c] = 0
  /\ hubPc # "select"
  /\ c \notin pending
  /\ ~Excluded(cur, c)

\* C14 as stated: a connection joined twice without a Leave in between is
\* written every later broadcast twice.
C14_JoinTwiceDuplicates ==
  \A c \in Conns : JoinedTwiceAndVisited(c) => passWrites[c] = 2

\* C14 as amended: Join is idempotent.  A connection joined once or several
\* times without a Leave in between is in the registry, and a pass writes
\* the broadcast to it exactly once.
C14_JoinIsIdempotent ==
  \A c \in Conns :
    /\ (joinsHandled[c] >= 1 /\ leavesHandled[c] = 0) => c \in conns
    /\ JoinedTwiceAndVisited(c) => passWrites[c] = 1

\* a pass has written once to a connection that was joined twice
C14_Witness ==
  \E c \in Conns :
    /\ JoinedTwiceAndVisited(c)
    /\ hubPc = "fanout"
    /\ passWrites[c] = 1
    /\ lastSeq[c] = cur.seq

\* the handler of c is at one of its own writes to c
HandlerWrites(c) == pc[c] \in {"greet", "reply", "ack"}
\* Hub.Run is in a pass that has the write of the broadcast to c before it
HubWrites(c) == hubPc = "fanout" /\ c \in pending /\ ~Excluded(cur, c)

\* C15: no two writes to one connection are in progress or about to start
\* at the same time: never is the handler of c at a write to c while Hub.Run
\* is at the write of a broadcast to c.
C15_WritesNeverRace ==
  \A c \in Conns : ~(HandlerWrites(c) /\ HubWrites(c))

\* C16: nothing is delivered to a new connection before its greeting: as
\* long as the handler has not written the welcome line and the usage hint,
\* the connection has received no broadcast; and a pass never writes a
\* connection its own [join].
C16_GreetingComesFirst ==
  \A c \in Conns :
    /\ pc[c] = "greet" => lastSeq[c] = 0
    /\ (hubPc # "select" /\ cur.kind = "join" /\ cur.from = c)
         => passWrites[c] = 0

\* a line that is one of the commands when letter case is ignored: MENU,
\* /quit, /name <text>, ORDER <json>
CommandInAnyCase(l) ==
  \/ ~l.has /\ EqualFold(l.text, MENU)
  \/ ~l.has /\ EqualFold(l.text, QUIT)
  \/ ~l.has /\ Len(l.text) > Len(NAME)
       /\ EqualFold(SubSeq(l.text, 1, Len(NAME)), NAME)
  \/ l.has /\ EqualFold(l.text, ORDER)

\* C17: a line that is a command in some letter case is never broadcast as
\* chat text.
C17_VerbsIgnoreCase ==
  \A i \in 1..Len(msgCh) :
    msgCh[i].kind = "chat" => ~CommandInAnyCase(msgCh[i].arg)

\* C19: a /name <text> line has one of three outcomes.  The sanitized text
\* is empty: [error] invalid username, same username, no broadcast.  It is
\* the current username: the [info] reply, no broadcast.  Otherwise: the
\* username is the sanitized text and one [rename] old -> new broadcast is
\* queued with nobody excluded, and nothing is written to the caller.
C19_NameOutcomes ==
  [][\A c \in Conns :
       LET l == line[c]
           new == sanitizeUsername(SubSeq(l.text, 7, Len(l.text)))
       IN  (/\ pc[c] = "dispatch" /\ pc'[c] # "dispatch"
            /\ ~l.has /\ Len(l.text) > 6 /\ SubSeq(l.text, 1, 6) = NAME)
           => CASE new = <<>> ->
                     /\ reply'[c] = Reply("error", "invalid username", 0)
                     /\ username'[c] = username[c]
                     /\ seq' = seq /\ msgCh' = msgCh
                [] new # <<>> /\ new = username[c] ->
                     /\ reply'[c].kind = "info"
                     /\ username'[c] = username[c]
                     /\ seq' = seq /\ msgCh' = msgCh
                [] OTHER ->
                     /\ username'[c] = new
                     /\ seq' = seq + 1
                     /\ msgCh' = Append(msgCh, Newest)
                     /\ Newest = Broadcast(seq + 1, "rename", c, username[c],
                                           new, NoConn)
                     /\ reply'[c] = NoReply]_vars

\* the renamer has received its own [rename] broadcast
C19_Witness ==
  /\ hubPc = "fanout"
  /\ cur.kind = "rename"
  /\ cur.from = 1
  /\ cur.arg = username[1]
  /\ cur.user # username[1]
  /\ lastSeq[1] = cur.seq

C18_SanitizeUsername ==
  san.pc = "done" =>
    /\ Len(san.out) <= 12
    /\ \A i \in 1..Len(san.out) :
         san.out[i] \in Letters \cup Digits \cup {"_", "-", "."}
    /\ san.out # <<>> =>
         /\ san.out[1] \notin {"_", "-", "."}
         /\ san.out[Len(san.out)] \notin {"_", "-", "."}
    /\ san.in = JaneDoe =>
         san.out = <<"J", "a", "n", "e", "_", "D", "o", "e">>
    /\ san.in = DotsDashes => san.out = <<>>
    /\ san.in = Run("a", 40) => san.out = Run("a", 12)

\* a text longer than 12 characters, with a space and a dropped character in
\* it, was cut and then trimmed at its end
C18_Witness ==
  /\ san.pc = "done"
  /\ san.in = Run("a", 10) \o <<" ", "!", "-", "Z">>
  /\ san.out = Run("a", 10)

\* C21: a line that is not blank after trimming and is no MENU, ORDER <json>,
\* /name <text> or /quit command is queued once as the chat broadcast of the
\* handler's username and id with the trimmed text and nobody excluded, and
\* nothing is written to the caller; /name without an argument and a word
\* that begins with ORDER are such lines.  A blank line queues nothing and
\* is answered with nothing.
C21_ChatLines ==
  [][\A c \in Conns :
       LET l == Trimmed(line[c])
       IN  (pc[c] = "dispatch" /\ pc'[c] # "dispatch")
           => /\ (~l.has /\ l.text = <<>>)
                   => /\ seq' = seq /\ msgCh' = msgCh
                      /\ reply'[c] = NoReply
                      /\ pc'[c] = "scan"
              /\ (~(~l.has /\ l.text = <<>>) /\ ~CommandInAnyCase(l))
                   => /\ seq' = seq + 1
                      /\ msgCh' = Append(msgCh,
                                         Broadcast(seq + 1, "chat", c,
                                                   username[c], l, NoConn))
                      /\ reply'[c] = NoReply
                      /\ pc'[c] = "scan"]_vars

\* C22: a MENU line queues no broadcast and changes no username and no
\* registry entry; the handler's reply is the one menu line, the same for
\* every connection and username, and writing it touches the caller's
\* connection only: no other connection receives anything by it.
C22_MenuToCallerOnly ==
  [][\A c \in Conns :
       LET l == Trimmed(line[c])
       IN  /\ (/\ pc[c] = "dispatch" /\ pc'[c] # "dispatch"
               /\ ~l.has /\ EqualFold(l.text, MENU))
              => /\ seq' = seq /\ msgCh' = msgCh
                 /\ username' = username
                 /\ conns' = conns
                 /\ lastSeq' = lastSeq
                 /\ net' = net
                 /\ reply'[c] = Reply("menu", "", 0)
                 /\ pc'[c] = "reply"
                 /\ \A d \in Conns \ {c} : reply'[d] = reply[d]
           /\ (pc[c] = "reply" /\ reply[c].kind = "menu" /\ pc'[c] # "reply")
              => /\ seq' = seq /\ msgCh' = msgCh
                 /\ username' = username
                 /\ conns' = conns
                 /\ lastSeq' = lastSeq
                 /\ pc'[c] \in {"scan", "stuck"}
                 /\ \A d \in Conns \ {c} :
                      /\ net'[d] = net[d]
                      /\ reply'[d] = reply[d]
                      /\ pc'[d] = pc[d]]_vars

\* two sessions are both about to be written the menu, one of them having
\* received a broadcast of the other before, and it is the same line
C22_Witness ==
  \E c, d \in Conns :
    /\ c # d
    /\ lastSeq[c] > 0
    /\ pc[c] = "reply" /\ pc[d] = "reply"
    /\ reply[c].kind = "menu"
    /\ reply[c] = reply[d]

\* C23: an ORDER whose "quantity" is a JSON string of digits or a JSON
\* number with a fraction, greater than 0, with a name that is not blank and
\* an itemId of the menu, is accepted: the [order] broadcast is queued and
\* the reply is OK|total with total = quantity * price.
C23_QuantityFallback ==
  [][\A c \in Conns :
       LET l == line[c]
       IN  (/\ pc[c] = "dispatch" /\ pc'[c] # "dispatch"
            /\ l.text = ORDER /\ l.has /\ l.json.ok
            /\ TrimSpace(l.json.name) # <<>>
            /\ l.json.qty.t \in {"str", "float"} /\ l.json.qty.v > 0
            /\ l.json.item \in MenuIDs)
           => /\ seq' = seq + 1
              /\ Len(msgCh') = Len(msgCh) + 1
              /\ reply'[c] =
                   Reply("ok", "",
                         l.json.qty.v * defaultMenu[l.json.item].Price)]_vars

\* the poll commands that are inside reader.ReadString on connection g, as
\* the number of their copies among the commands in flight
PollsReading(b, g) ==
  CopiesIn([Cmd("poll", g, "reading", "", "") EXCEPT !.shared = TRUE], b)
    + CopiesIn([Cmd("poll", g, "reading", "", "") EXCEPT !.shared = FALSE], b)

\* C24: while pauseBroadcast is set, no poll command enters
\* reader.ReadString: the poller issues no new read until the flag is
\* cleared.
C24_PollerWaitsWhilePaused ==
  [][m.pauseBroadcast
       => \A g \in Dials : PollsReading(cmds', g) <= PollsReading(cmds, g)]_vars

\* an order command whose message Update handles in this step: the answer
\* it read is a line of the server's answer to the ORDER it wrote
OrderHandled(c) ==
  /\ c.kind = "order" /\ c.pc = "done"
  /\ c.res = "line" /\ c.got \in {"ok", "order"}
  /\ ~m.form /\ ~m'.quit
  /\ CopiesIn(c, cmds') < CopiesIn(c, cmds)

\* C25: as long as the program runs, pauseBroadcast is set exactly while an
\* order submission is started and its orderSubmittedMsg is not handled yet
\* (so it is cleared on success and on failure); and when the message of an
\* order the server accepted has been handled, a poll command is outstanding.
C25_PauseFlagLifetime ==
  /\ [](~m.quit => (m.pauseBroadcast <=> \E c \in Running : c.kind = "order"))
  /\ [][\A c \in Running :
          OrderHandled(c) => \E p \in BagToSet(cmds') : p.kind = "poll"]_vars

\* the message of the finished poll command c reaches Update in this step
PollDelivered(c) ==
  /\ c.kind = "poll" /\ c.pc = "done"
  /\ CopiesIn(c, cmds') < CopiesIn(c, cmds)
  /\ ~m'.quit

\* C26: when the message of a poll read reaches Update, then after a
\* deadline expiry the model (history, connection) and the sockets are as
\* before and the next poll is issued; after any other read error the
\* connection of the poll is closed, conn is nil, broadcastListening is
\* false and no poll is issued.
C26_PollReadOutcomes ==
  [][\A c \in Running :
       PollDelivered(c)
         => /\ c.res = "timeout"
                 => /\ m' = m
                    /\ sock' = sock
                    /\ CopiesIn(Poll(m.conn), cmds')
                         > CopiesIn(Poll(m.conn), cmds)
            /\ c.res = "err"
                 => /\ m'.conn = NilConn
                    /\ ~m'.broadcastListening
                    /\ sock'[c.conn].state = "closed"
                    /\ \A g \in Dials \cup {NilConn} :
                         CopiesIn(Poll(g), cmds') <= CopiesIn(Poll(g), cmds)]_vars

\* C27: the history never has more than 10 entries and only [order] lines
\* in it; it changes only when Update handles a poll result that is an
\* [order] line, which is then appended at the end, the oldest entry being
\* dropped when that makes 11; an empty poll result or a line without the
\* [order] prefix leaves it as it is.
C27_HistoryBounded ==
  /\ [](/\ Len(m.broadcasts) <= 10
        /\ \A i \in 1..Len(m.broadcasts) :
             m.broadcasts[i] \in {"order", "order2"})
  /\ [][\A c \in Running :
          (PollDelivered(c) /\ ~m.form)
            => IF c.res = "line" /\ c.got \in {"order", "order2"}
                 THEN m'.broadcasts =
                        (IF Len(m.broadcasts) = 10 THEN Tail(m.broadcasts)
                         ELSE m.broadcasts) \o <<c.got>>
                 ELSE m'.broadcasts = m.broadcasts]_vars
  /\ [][m'.broadcasts # m.broadcasts
          => \E c \in Running :
               /\ PollDelivered(c) /\ ~m.form
               /\ c.res = "line" /\ c.got \in {"order", "order2"}]_vars

\* the history is full, its oldest and newest entries are different [order]
\* lines, and every line that was sent has been read and handled
C27_Witness ==
  /\ Len(m.broadcasts) = 10
  /\ m.broadcasts[1] = "order2"
  /\ m.broadcasts[10] = "order"
  /\ bcasts = MaxHistoryLines
  /\ sock[1].inbox = <<>>
  /\ \A c \in Running : c.res # "line"

\* the message of the finished menu or order command c reaches Update in
\* this step
CallDelivered(c) ==
  /\ c.kind \in Foreground /\ c.pc = "done"
  /\ CopiesIn(c, cmds') < CopiesIn(c, cmds)
  /\ ~m'.quit

\* C28: when a menu fetch or an order submission ends with a failed write,
\* a deadline expiry or another read error, Update records the error,
\* clears loading, keeps the menu it had and opens no form; for an order it
\* clears pauseBroadcast and does not start the poller.
C28_ForegroundFailure ==
  [][\A c \in Running :
       (CallDelivered(c) /\ c.res \in {"err", "timeout"})
         => /\ m'.err
            /\ ~m'.loading
            /\ m'.menu = m.menu
            /\ ~m'.form
            /\ c.kind = "order"
                 => /\ ~m'.pauseBroadcast
                    /\ m'.broadcastListening = m.broadcastListening]_vars

\* the server has sent nothing but the menu and has not taken the ORDER yet:
\* the order submission has ended by its deadline and was handled
C28_Witness ==
  /\ m.conn = 1
  /\ sock[1].state = "open"
  /\ ~sock[1].greeted
  /\ bcasts = 0
  /\ calls = 2
  /\ m.menu
  /\ sock[1].reqs = <<"ORDER">>
  /\ \A c \in Running : c.kind \notin Foreground
  /\ m.err /\ ~m.loading /\ ~m.pauseBroadcast /\ ~m.form

\* the handler of c is at a send on h.msgCh
Submitting(c) ==
  \/ pc[c] \in {"announce", "leaveMsg"}
  \/ /\ pc[c] = "dispatch"
     /\ BroadcastFor(Trimmed(line[c]), username[c]).kind # "none"

\* passes Hub.Run has started
PassesStarted == passesDone + (IF hubPc = "select" THEN 0 ELSE 1)

\* C29: every broadcast a handler submits is consumed by Hub.Run exactly
\* once.  The queue holds, in submission order, exactly the submissions no
\* pass has been started for, and the pass in progress is the one of the
\* last submission taken; a handler at a send with the queue full stays
\* there, and leaves a send only with its broadcast queued; and as long as
\* no write of the Hub hangs, every submission gets its pass completed.
C29_EachRequestOnce ==
  /\ [](/\ PassesStarted + Len(msgCh) = seq
        /\ \A i \in 1..Len(msgCh) : msgCh[i].seq = PassesStarted + i
        /\ hubPc # "select" => cur.seq = PassesStarted)
  /\ [][\A c \in Conns :
          (Submitting(c) /\ pc'[c] # pc[c])
            => /\ Len(msgCh) < MsgChCap
               /\ seq' = seq + 1
               /\ Len(msgCh') = Len(msgCh) + 1
               /\ msgCh'[Len(msgCh')].from = c
               /\ msgCh'[Len(msgCh')].seq = seq + 1]_vars
  /\ \A k \in 1..MaxSeq :
       (seq >= k) ~> (passesDone >= k \/ hubPc = "blocked")

\* the queue is full while a handler is at a send, after the Hub has
\* completed a pass
C29_Witness ==
  /\ Len(msgCh) = MsgChCap
  /\ passesDone >= 1
  /\ \E c \in Conns : Submitting(c)

\* C30: once Hub.Run has processed the Leave of a registered connection c
\* (it has closed c), it is not in the registry any more, no pass writes to
\* it, nothing is delivered to it and it is not closed again, whatever is
\* queued and whoever joins or leaves afterwards.
C30_NothingAfterLeave ==
  /\ [](\A c \in Conns : closes[c] >= 1 => (c \notin conns /\ c \notin pending))
  /\ [][\A c \in Conns :
          closes[c] >= 1
            => /\ passWrites'[c] <= passWrites[c]
               /\ lastSeq'[c] = lastSeq[c]
               /\ closes'[c] = closes[c]]_vars

\* c has left and was closed with its own [join] still queued; the Hub is
\* now in the pass of that [join], which names c as the excluded connection,
\* and has written it to d, which is registered
C30_Witness ==
  \E c, d \in Conns :
    /\ c # d
    /\ closes[c] = 1
    /\ hubPc = "fanout"
    /\ cur.kind = "join" /\ cur.exclude = c
    /\ d \in conns /\ d \notin pending
    /\ passWrites[d] = 1
    /\ passWrites[c] = 0

\* C31: the line a menu fetch reads as the answer to its MENU request is the
\* server's menu, also when broadcast lines of other sessions have reached
\* the client since the greeting.  Stated for the fetches that read a line
\* and for which that line is not a late greeting line.
C31_MenuFetchGetsMenu ==
  \A c \in Running :
    (/\ c.kind = "menu" /\ c.pc = "done" /\ c.res = "line"
     /\ c.got \notin {"welcome", "usage"})
      => c.got = "menu"

\* the listenForBroadcastsCmd instances that are scheduled, reading or
\* returned and not handled yet, as a bag (those built with a nil connection
\* return at once and are not counted)
Polls ==
  [c \in {d \in Running : d.kind = "poll" /\ d.conn # NilConn} |-> cmds[c]]

\* C32: at most one background poll is scheduled or in flight at any time.
C32_AtMostOnePoll == BagCardinality(Polls) <= 1

\* a result of a command built on an earlier connection that Update takes
\* in this step, while the client is on another, newer connection
StaleHandled(c) ==
  /\ c.kind \in Foreground \cup {"poll"} /\ c.pc = "done"
  /\ c.conn # NilConn /\ m.conn # NilConn /\ c.conn # m.conn
  /\ CopiesIn(c, cmds') < CopiesIn(c, cmds)
  /\ ~m'.quit

\* C33: handling a late result of the previous connection leaves the new
\* connection as it is: the client keeps it, its socket is not closed, and
\* no poll is issued on it.
C33_StaleResultKeepsNewConn ==
  [][\A c \in Running :
       StaleHandled(c) =>
         /\ m'.conn = m.conn
         /\ sock'[m.conn].state = sock[m.conn].state
         /\ \A d \in BagToSet(cmds') :
              (d.kind = "poll" /\ d.conn = m.conn)
                => CopiesIn(d, cmds') <= CopiesIn(d, cmds)]_vars

\* C34: a broadcast that was submitted while a connection had not sent its
\* Join yet is never delivered to that connection.
C34_NoBroadcastFromBeforeJoin ==
  \A c \in Conns : \A n \in 1..MaxSeq :
    []((pc[c] = "join" /\ n <= seq) => [](lastSeq[c] # n))

\* C35: a text with at least one letter or digit in it gives a non-empty
\* username, whatever precedes the letter or digit; only a text without any
\* is rejected as an invalid username.
C35_LetterOrDigitGivesName ==
  (/\ san.pc = "done"
   /\ \E i \in 1..Len(san.in) : san.in[i] \in Letters \cup Digits)
    => san.out # <<>>

\* an order command that read an [error] line as its answer and whose
\* message Update handles in this step
RejectedOrderHandled(c) ==
  /\ c.kind = "order" /\ c.pc = "done"
  /\ c.res = "line" /\ c.got = "error"
  /\ ~m'.quit
  /\ CopiesIn(c, cmds') < CopiesIn(c, cmds)

\* C36: an ORDER answered with an [error] line is reported as a failed
\* submission: the error is recorded when its message is handled.
C36_RejectedOrderIsFailure ==
  [][\A c \in Running : RejectedOrderHandled(c) => m'.err]_vars

\* the fetchMenuCmd and submitOrderCmd instances that are scheduled, running
\* or returned and not handled yet, as a bag
Calls == [c \in {d \in Running : d.kind \in Foreground} |-> cmds[c]]

\* C37: as long as the program runs there is at most one foreground request,
\* and loading is set exactly while there is one; no step taken while loading
\* is set or the form is open starts a menu fetch.
C37_OneForegroundRequest ==
  /\ [](~m.quit => /\ BagCardinality(Calls) <= 1
                   /\ m.loading <=> BagCardinality(Calls) = 1)
  /\ [][(m.loading \/ m.form)
          => \A c \in BagToSet(cmds') :
               (c.kind = "menu" /\ c.pc = "new")
                 => CopiesIn(c, cmds') <= CopiesIn(c, cmds)]_vars

\* the third request, an order on the second connection, is outstanding and
\* the user presses nothing that starts another
C37_Witness ==
  /\ ~m.quit /\ m.loading /\ ~m.form
  /\ calls = MaxCalls
  /\ m.conn = 2
  /\ \E c \in Running : c.kind = "order" /\ c.conn = 2 /\ c.pc = "reading"

\* C38: a line or a deadline expiry a poll on the current connection returns
\* is followed by a new poll on it, and an [order] line the poll has read is
\* then the newest entry of the history, whether the form is open or not.
C38_PollResultsNotDropped ==
  [][\A c \in Running :
       (/\ PollDelivered(c) /\ c.conn = m.conn
        /\ c.res \in {"line", "timeout"})
         => /\ CopiesIn(Poll(m.conn), cmds') > CopiesIn(Poll(m.conn), cmds)
            /\ (c.res = "line" /\ HasOrderPrefix(c.got))
                 => /\ m'.broadcasts # <<>>
                    /\ m'.broadcasts[Len(m'.broadcasts)] = c.got]_vars

\* C39: as long as no write of the Hub hangs, Hub.Run comes back to its
\* select from every pass, and every handler that waits at a send on joinCh,
\* leaveCh or msgCh (the queue may be full) gets past it.
C39_NoDeadlock ==
  /\ (hubPc = "fanout") ~> (hubPc \in {"select", "blocked"})
  /\ \A c \in Conns :
       /\ (pc[c] = "join") ~> (pc[c] # "join" \/ hubPc = "blocked")
       /\ Submitting(c) ~> (~Submitting(c) \/ hubPc = "blocked")
       /\ (pc[c] = "leave") ~> (pc[c] = "done" \/ hubPc = "blocked")

\* one handler waits at a send on the full queue and the other at its Leave
\* while the Hub is in a pass
C39_Witness ==
  \E c, d \in Conns :
    /\ c # d
    /\ hubPc = "fanout"
    /\ Len(msgCh) = MsgChCap
    /\ Submitting(c)
    /\ pc[d] = "leave"

TypeOK ==
  /\ conns \subseteq Conns
  /\ Len(msgCh) <= MsgChCap
  /\ hubPc \in {"select", "fanout", "blocked"}

====
